---- MODULE Spec2Model ----
(***************************************************************************)
(* Model of the usbip-manager VS Code extension (src/src/extension.ts):    *)
(* the two listing parsers, parseUsbipOutput and parseImportedUsbDevices,  *)
(* and the three command handlers listDevices, attachDevice, detachDevice. *)
(*                                                                         *)
(* A JavaScript string is a sequence of one-character strings, so that     *)
(* split, trim, padStart and the regular expressions are computed, not     *)
(* assumed.                                                                *)
(***************************************************************************)
EXTENDS Integers, Sequences, FiniteSets, TLC

VARIABLES
    pc,             \* position of the running function or handler
    output,         \* parser argument `output`
    client,         \* parseUsbipOutput argument `client`
    lines,          \* the lines the parser's split produced
    idx,            \* position of the `for (const line of lines)` loop
    currentDevice,  \* the parser's accumulator
    devices,        \* the parser's result array / listDevices' `devices`
    cmd,            \* the command handler that was invoked
    clients,        \* configuration value usbipManager.clients
    hostIdx,        \* position of listDevices' `for (const client of clients)`
    execLog,        \* every exec() made by runCommand, with its outcome
    messages,       \* every vscode.window.show*Message call, in order
    picks,          \* every showQuickPick call: the items and the answer
    selected,       \* what the last showQuickPick resolved to
    ret,            \* listDevices' return value
    attachIdx,      \* position of attachDevice's `for (const device of devices)`
    portList,       \* detachDevice's `portList`
    outcome         \* how the handler's promise settled

vars ==
    <<pc, output, client, lines, idx, currentDevice, devices, cmd, clients,
      hostIdx, execLog, messages, picks, selected, ret, attachIdx, portList,
      outcome>>

parserVars == <<output, client, lines, idx, currentDevice>>

commandVars ==
    <<cmd, clients, hostIdx, execLog, messages, picks, selected, ret,
      attachIdx, portList, outcome>>

(***************************************************************************)
(* Bounds of the model.                                                    *)
(***************************************************************************)
MaxLines == 3

MaxHosts == 3

(***************************************************************************)
(* Characters and character classes of the regular expressions.           *)
(***************************************************************************)
Whitespace == {" ", "\t", "\n", "\r", "\f"}

LineTerminator == {"\n", "\r"}

Digit == {"0", "1", "2", "3", "4", "5", "6", "7", "8", "9"}

HexDigit == Digit \cup {"a", "b", "c", "d", "e", "f", "A", "B", "C", "D", "E", "F"}

\* A class is "\\s", "\\S", "\\d", "hex" ([\da-fA-F]), "any" (.) or a literal
\* character.
InClass(c, cls) ==
    CASE cls = "\\s" -> c \in Whitespace
      [] cls = "\\S" -> c \notin Whitespace
      [] cls = "\\d" -> c \in Digit
      [] cls = "hex" -> c \in HexDigit
      [] cls = "any" -> c \notin LineTerminator
      [] OTHER -> c = cls

(***************************************************************************)
(* Regular expressions: a sequence of items, each a quantified class, a    *)
(* literal text, a group parenthesis or the $ anchor.  Every expression of *)
(* the source starts with ^ and is used without flags, so a match starts   *)
(* at the first character.  Unbounded is the max of * and +.               *)
(***************************************************************************)
Unbounded == 0 - 1

One(c) == [cls |-> c, min |-> 1, max |-> 1]

Star(c) == [cls |-> c, min |-> 0, max |-> Unbounded]

Plus(c) == [cls |-> c, min |-> 1, max |-> Unbounded]

Rep(c, n) == [cls |-> c, min |-> n, max |-> n]

Open(g) == [open |-> g]

Close(g) == [close |-> g]

EndAnchor == [end |-> TRUE]

Lit(s) == [lit |-> s]

NoMatch == [ok |-> FALSE, g |-> <<>>]

\* How many characters from position p on are in cls, at most max of them
\* (no limit when max is Unbounded).
RECURSIVE RunLen(_, _, _, _)
RunLen(s, p, cls, max) ==
    IF max = 0 \/ p > Len(s) THEN 0
    ELSE IF ~InClass(s[p], cls) THEN 0
    ELSE 1 + RunLen(s, p + 1, cls, max - 1)

\* Of the matches of the rest of an expression after each count n a greedy
\* quantifier may take, the one backtracking finds first: the largest count.
LongestGood(tries) ==
    LET good == {t \in tries : t.r.ok}
    IN  IF good = {} THEN NoMatch
        ELSE (CHOOSE t \in good : \A u \in good : u.n <= t.n).r

\* The backtracking match of items k.. of re against s from position p.
\* A greedy quantifier takes the longest run first and gives back one
\* character at a time: the match found is the one with the largest count
\* for which the rest of the expression matches.  g[i] is the text group i
\* captured (while the group is open, the position it starts at).
RECURSIVE MatchFrom(_, _, _, _, _)
MatchFrom(re, k, s, p, g) ==
    IF k > Len(re) THEN [ok |-> TRUE, g |-> g]
    ELSE IF "open" \in DOMAIN re[k]
        THEN MatchFrom(re, k + 1, s, p, [g EXCEPT ![re[k].open] = <<p>>])
    ELSE IF "close" \in DOMAIN re[k]
        THEN MatchFrom(re, k + 1, s, p,
                       [g EXCEPT ![re[k].close] = SubSeq(s, @[1], p - 1)])
    ELSE IF "end" \in DOMAIN re[k]
        THEN IF p = Len(s) + 1 THEN MatchFrom(re, k + 1, s, p, g) ELSE NoMatch
    ELSE IF "lit" \in DOMAIN re[k]
        THEN LET q == p + Len(re[k].lit)
             IN  IF q - 1 <= Len(s) /\ SubSeq(s, p, q - 1) = re[k].lit
                 THEN MatchFrom(re, k + 1, s, q, g) ELSE NoMatch
    ELSE LongestGood({[n |-> n, r |-> MatchFrom(re, k + 1, s, p + n, g)] :
                          n \in re[k].min..RunLen(s, p, re[k].cls, re[k].max)})

\* the number of groups of an expression
GroupCount(re) == Cardinality({k \in 1..Len(re) : "open" \in DOMAIN re[k]})

\* line.match(re)
Match(line, re) ==
    MatchFrom(re, 1, line, 1, [i \in 1..GroupCount(re) |-> <<>>])

(***************************************************************************)
(* String helpers.                                                         *)
(***************************************************************************)
\* String.prototype.split with the separator /\r?\n/: the pieces between the
\* line breaks; the \r before a \n belongs to the break, any other \r stays
\* in its line.
RECURSIVE SplitFrom(_, _)
SplitFrom(s, p) ==
    LET breaks == {q \in p..Len(s) : s[q] = "\n"}
    IN  IF breaks = {} THEN <<SubSeq(s, p, Len(s))>>
        ELSE LET q == CHOOSE b \in breaks : \A c \in breaks : b <= c
                 e == IF q > p /\ s[q - 1] = "\r" THEN q - 2 ELSE q - 1
             IN  <<SubSeq(s, p, e)>> \o SplitFrom(s, q + 1)

SplitLines(s) == SplitFrom(s, 1)

\* String.prototype.trim
RECURSIVE TrimStart(_)
TrimStart(s) ==
    IF s # <<>> /\ Head(s) \in Whitespace THEN TrimStart(Tail(s)) ELSE s

RECURSIVE TrimEnd(_)
TrimEnd(s) ==
    IF s # <<>> /\ s[Len(s)] \in Whitespace
    THEN TrimEnd(SubSeq(s, 1, Len(s) - 1)) ELSE s

Trim(s) == TrimEnd(TrimStart(s))

\* String.prototype.padStart(width, fill) with a one-character fill: the
\* string is returned as it is once it has width characters or more.
RECURSIVE PadStart(_, _, _)
PadStart(s, width, fill) ==
    IF Len(s) >= width THEN s ELSE PadStart(<<fill>> \o s, width, fill)

DigitValue(c) == CHOOSE n \in 0..9 : ToString(n) = c

\* Number(digits) of a string of decimal digits
RECURSIVE ToNumber(_)
ToNumber(s) ==
    IF s = <<>> THEN 0
    ELSE 10 * ToNumber(SubSeq(s, 1, Len(s) - 1)) + DigitValue(s[Len(s)])

RECURSIVE Join(_, _)
Join(ls, sep) ==
    IF ls = <<>> THEN <<>>
    ELSE IF Len(ls) = 1 THEN ls[1]
    ELSE ls[1] \o sep \o Join(Tail(ls), sep)

RECURSIVE Concat(_)
Concat(ss) == IF ss = <<>> THEN <<>> ELSE Head(ss) \o Concat(Tail(ss))

(***************************************************************************)
(* parseUsbipOutput: the export listing of one host.                       *)
(***************************************************************************)
\* three two-digit hexadecimal parts, [\dA-Fa-f]{2}\/[\dA-Fa-f]{2}\/[\dA-Fa-f]{2}
ClassCodeItems ==
    <<Rep("hex", 2), One("/"), Rep("hex", 2), One("/"), Rep("hex", 2)>>

\* /^(\s*)(\S+)\s+:\s+(.*)\s+:\s+(.*)\s+\(([\da-fA-F]{4}:[\da-fA-F]{4})\)/
busLineRegex ==
    <<Open(1), Star("\\s"), Close(1), Open(2), Plus("\\S"), Close(2),
      Plus("\\s"), One(":"), Plus("\\s"), Open(3), Star("any"), Close(3),
      Plus("\\s"), One(":"), Plus("\\s"), Open(4), Star("any"), Close(4),
      Plus("\\s"), One("("), Open(5), Rep("hex", 4), One(":"), Rep("hex", 4),
      Close(5), One(")")>>

\* /^\s*:\s+(\/.*)/
pathRegex ==
    <<Star("\\s"), One(":"), Plus("\\s"), Open(1), One("/"), Star("any"),
      Close(1)>>

\* /^\s*:\s+\((.*)\)\s+\(([\dA-Fa-f]{2}\/[\dA-Fa-f]{2}\/[\dA-Fa-f]{2})\)/
classRegex ==
    <<Star("\\s"), One(":"), Plus("\\s"), One("("), Open(1), Star("any"),
      Close(1), One(")"), Plus("\\s"), One("("), Open(2)>>
    \o ClassCodeItems \o <<Close(2), One(")")>>

\* /^\s*:\s+(\d+)\s+-\s+(.*)\s+\(([\dA-Fa-f]{2}\/[\dA-Fa-f]{2}\/[\dA-Fa-f]{2})\)/
interfaceRegex ==
    <<Star("\\s"), One(":"), Plus("\\s"), Open(1), Plus("\\d"), Close(1),
      Plus("\\s"), One("-"), Plus("\\s"), Open(2), Star("any"), Close(2),
      Plus("\\s"), One("("), Open(3)>>
    \o ClassCodeItems \o <<Close(3), One(")")>>

\* `let currentDevice: UsbDevice | null = null`
Null == [null |-> TRUE]

\* the object literal a header line opens
NewUsbDevice(c, m) ==
    [client |-> c, busId |-> m[2], vendor |-> m[3], product |-> m[4],
     path |-> <<>>, deviceClass |-> <<>>, interfaces |-> <<>>]

PushOpenDeviceLost(devs, cur) == devs

\* `if (currentDevice) { devices.push(currentDevice); }`
PushOpenDevice(devs, cur) == IF cur # Null THEN Append(devs, cur) ELSE devs

\* `${classMatch[1]} (${classMatch[2]})`
DeviceClassText(m) == m[1] \o <<" ", "(">> \o m[2] \o <<")">>

NewUsbInterface(m) ==
    [index |-> ToNumber(m[1]), description |-> m[2], classCode |-> m[3]]

\* `currentDevice.path = pathMatch[1]`
SetPath(cur, m) == [cur EXCEPT !.path = m[1]]

\* `currentDevice.deviceClass = ...`
SetDeviceClass(cur, m) == [cur EXCEPT !.deviceClass = DeviceClassText(m)]

AddInterfaceFirst(cur, m) ==
    [cur EXCEPT !.interfaces = <<NewUsbInterface(m)>> \o @]

\* `currentDevice.interfaces.push({...})`
AddInterface(cur, m) ==
    [cur EXCEPT !.interfaces = Append(@, NewUsbInterface(m))]

\* One pass of the loop body over a line: the branch taken, the accumulator
\* and the result array it leaves.
ExportStep(cur, devs, c, line) ==
    IF Match(line, busLineRegex).ok
        THEN [branch |-> "bus",
              currentDevice |-> NewUsbDevice(c, Match(line, busLineRegex).g),
              devices |-> PushOpenDevice(devs, cur)]
    ELSE IF Match(line, pathRegex).ok /\ cur # Null
        THEN [branch |-> "path",
              currentDevice |-> SetPath(cur, Match(line, pathRegex).g),
              devices |-> devs]
    ELSE IF Match(line, classRegex).ok /\ cur # Null
        THEN [branch |-> "class",
              currentDevice |->
                  SetDeviceClass(cur, Match(line, classRegex).g),
              devices |-> devs]
    ELSE IF Match(line, interfaceRegex).ok /\ cur # Null
        THEN [branch |-> "interface",
              currentDevice |->
                  AddInterface(cur, Match(line, interfaceRegex).g),
              devices |-> devs]
    ELSE [branch |-> "none", currentDevice |-> cur, devices |-> devs]

\* The loop over lines k.., then the push of the device still open.  (The
\* one-element set binds the step's result, so that it is computed once.)
RECURSIVE ExportScan(_, _, _, _, _)
ExportScan(ls, k, cur, devs, c) ==
    IF k > Len(ls) THEN PushOpenDevice(devs, cur)
    ELSE CHOOSE r \in {ExportScan(ls, k + 1, st.currentDevice, st.devices, c) :
                           st \in {ExportStep(cur, devs, c, ls[k])}} : TRUE

parseUsbipOutput(text, c) == ExportScan(SplitLines(text), 1, Null, <<>>, c)

(***************************************************************************)
(* Export listings the parser is run on: every listing of at most MaxLines *)
(* of the lines below, joined by \n or by \r\n, and the listing of         *)
(* scenario A.                                                             *)
(***************************************************************************)
HdrMouse ==
    <<" ", "1", "-", "1", " ", ":", " ", "L", "g", " ", ":", " ", "M", "s",
      " ", "(", "0", "4", "6", "d", ":", "c", "0", "7", "7", ")">>

HdrDisk ==
    <<"2", "-", "2", " ", ":", " ", "S", "d", " ", ":", " ", "F", "l", " ",
      "X", " ", "(", "0", "7", "8", "1", ":", "5", "5", "6", "7", ")">>

PathMouse ==
    <<" ", ":", " ", "/", "s", "y", "s", "/", "1", "-", "1">>

PathDisk ==
    <<"\t", ":", " ", "/", "d", "/", "2", "-", "2", " ">>

ClassHid ==
    <<" ", ":", " ", "(", "H", "I", "D", ")", " ", "(", "0", "3", "/", "0",
      "1", "/", "0", "2", ")">>

IntfBoot ==
    <<" ", ":", " ", " ", "0", " ", "-", " ", "B", "o", "o", "t", " ", "(",
      "0", "3", "/", "0", "1", "/", "0", "2", ")">>

IntfKbd ==
    <<" ", ":", " ", "1", " ", "-", " ", "K", "b", "d", " ", "(", "0", "3",
      "/", "0", "1", "/", "0", "1", ")">>

JunkLine ==
    <<"-", " ", "1", "0", ".", "0", ".", "0", ".", "1">>

ScenarioAHeader ==
    <<" ", "1", "-", "1", ":", " ", "L", "o", "g", "i", "t", "e", "c", "h",
      " ", "U", "S", "B", " ", "O", "p", "t", "i", "c", "a", "l", " ", "M",
      "o", "u", "s", "e", " ", ":", " ", "(", "0", "4", "6", "d", ":", "c",
      "0", "7", "7", ")">>

ScenarioAPath ==
    <<" ", " ", " ", " ", ":", " ", "/", "s", "y", "s", "/", "d", "e", "v",
      "i", "c", "e", "s", "/", ".", ".", ".", "/", "1", "-", "1">>

ScenarioAClass ==
    <<" ", " ", " ", " ", ":", " ", "(", "H", "u", "m", "a", "n", " ", "I",
      "n", "t", "e", "r", "f", "a", "c", "e", " ", "D", "e", "v", "i", "c",
      "e", ")", " ", "(", "0", "3", "/", "0", "1", "/", "0", "2", ")">>

ScenarioAIntf ==
    <<" ", " ", " ", " ", ":", " ", " ", " ", " ", "0", " ", "-", " ", "B",
      "o", "o", "t", " ", "I", "n", "t", "e", "r", "f", "a", "c", "e", " ",
      "S", "u", "b", "c", "l", "a", "s", "s", " ", "(", "0", "3", "/", "0",
      "1", "/", "0", "2", ")">>

ScenarioAVendor ==
    <<"L", "o", "g", "i", "t", "e", "c", "h", " ", "U", "S", "B", " ", "O",
      "p", "t", "i", "c", "a", "l", " ", "M", "o", "u", "s", "e">>


ExportLinePool ==
    {HdrMouse, HdrDisk, PathMouse, ClassHid, IntfBoot, IntfKbd, JunkLine}

LineBreaks == {<<"\n">>, <<"\r", "\n">>}

ScenarioAText ==
    Join(<<ScenarioAHeader, ScenarioAPath, ScenarioAClass, ScenarioAIntf>>,
         <<"\n">>)

ScenarioAClient == "192.168.1.100"

ExportInputs ==
    {Join(ls, sep) :
        ls \in UNION {[1..n -> ExportLinePool] : n \in 0..MaxLines},
        sep \in LineBreaks}
    \cup {ScenarioAText}

\* `undefined` as the value of listDevices
Undefined == [defined |-> FALSE, value |-> <<>>]

\* showQuickPick has not been called; item 0 of an answer is `undefined`,
\* the answer to a cancelled pick
NotAsked == [asked |-> FALSE, item |-> 0]

\* No command handler is running.
CommandsIdle ==
    /\ cmd = "none"
    /\ clients = <<>>
    /\ hostIdx = 0
    /\ execLog = <<>>
    /\ messages = <<>>
    /\ picks = <<>>
    /\ selected = NotAsked
    /\ ret = Undefined
    /\ attachIdx = 0
    /\ portList = <<>>
    /\ outcome = "pending"

\* parseUsbipOutput entered: lines 165-167 have run.
ExportInit ==
    /\ output \in ExportInputs
    /\ client = ScenarioAClient
    /\ lines = SplitLines(output)
    /\ idx = 1
    /\ currentDevice = Null
    /\ devices = <<>>
    /\ pc = "scan"
    /\ CommandsIdle

\* One pass of the loop body (lines 174-213) that takes branch b.
ExportLine(b) ==
    /\ pc = "scan"
    /\ idx <= Len(lines)
    /\ \E st \in {ExportStep(currentDevice, devices, client, lines[idx])} :
          /\ st.branch = b
          /\ currentDevice' = st.currentDevice
          /\ devices' = st.devices
    /\ idx' = idx + 1

\* lines 175-191: a device header line
BusLine ==
    /\ ExportLine("bus")
    /\ UNCHANGED <<pc, output, client, lines>>
    /\ UNCHANGED commandVars

\* lines 193-197: a path line while a device is open
PathLine ==
    /\ ExportLine("path")
    /\ UNCHANGED <<pc, output, client, lines>>
    /\ UNCHANGED commandVars

\* lines 199-203: a class line while a device is open
ClassLine ==
    /\ ExportLine("class")
    /\ UNCHANGED <<pc, output, client, lines>>
    /\ UNCHANGED commandVars

\* lines 205-212: an interface line while a device is open
InterfaceLine ==
    /\ ExportLine("interface")
    /\ UNCHANGED <<pc, output, client, lines>>
    /\ UNCHANGED commandVars

\* any other line, and any continuation line while no device is open
IgnoredLine ==
    /\ ExportLine("none")
    /\ UNCHANGED <<pc, output, client, lines>>
    /\ UNCHANGED commandVars

\* After the loop: lines 215-219.
ExportReturn ==
    /\ pc = "scan"
    /\ idx > Len(lines)
    /\ devices' = PushOpenDevice(devices, currentDevice)
    /\ pc' = "done"
    /\ UNCHANGED <<output, client, lines, idx, currentDevice>>
    /\ UNCHANGED commandVars

ExportNext ==
    \/ BusLine
    \/ PathLine
    \/ ClassLine
    \/ InterfaceLine
    \/ IgnoredLine
    \/ ExportReturn

SpecExport == ExportInit /\ [][ExportNext]_vars

(***************************************************************************)
(* Properties of parseUsbipOutput.                                         *)
(***************************************************************************)
\* a finite set of integers, in ascending order
RECURSIVE Ascending(_)
Ascending(S) ==
    IF S = {} THEN <<>>
    ELSE LET m == CHOOSE x \in S : \A y \in S : x <= y
         IN  <<m>> \o Ascending(S \ {m})

\* the lines the loop has been through
ScannedUpTo == IF pc = "done" THEN Len(lines) ELSE idx - 1

IsHeader(k) == Match(lines[k], busLineRegex).ok

\* the header lines among the first n lines
HeaderLines(n) == {k \in 1..n : IsHeader(k)}

\* the devices the parser holds: those pushed, then the one still open
ExportHeld ==
    IF pc = "scan" /\ currentDevice # Null
    THEN Append(devices, currentDevice) ELSE devices

\* C1: at every point of the scan, and in the returned array, the devices
\* pushed plus the one open are exactly the header lines seen so far, one
\* device per header line and in the order of the header lines, each with
\* the bus id, vendor and product of its own header line; so the array
\* returned has as many devices as the input has header lines, none lost,
\* duplicated or reordered.
C1_OneDevicePerHeader ==
    pc \in {"scan", "done"} =>
        LET hs == Ascending(HeaderLines(ScannedUpTo))
        IN  /\ Len(ExportHeld) = Len(hs)
            /\ pc = "scan" => (currentDevice = Null <=> hs = <<>>)
            /\ \A k \in 1..Len(hs) :
                  LET m == Match(lines[hs[k]], busLineRegex).g
                  IN  /\ ExportHeld[k].busId = m[2]
                      /\ ExportHeld[k].vendor = m[3]
                      /\ ExportHeld[k].product = m[4]
                      /\ ExportHeld[k].client = client

\* a listing with two different header lines and a third line was parsed
C1_Witness ==
    /\ pc = "done"
    /\ Len(lines) = 3
    /\ Len(devices) = 2
    /\ devices[1].busId # devices[2].busId

\* the lines after header line h, up to the next header line or line n
Segment(h, n) == {k \in (h + 1)..n : \A j \in (h + 1)..k : ~IsHeader(j)}

Largest(S) == CHOOSE x \in S : \A y \in S : y <= x

IsPath(k) == Match(lines[k], pathRegex).ok

IsClass(k) == ~IsPath(k) /\ Match(lines[k], classRegex).ok

IsInterface(k) ==
    ~IsPath(k) /\ ~IsClass(k) /\ Match(lines[k], interfaceRegex).ok

\* C7: every device the parser holds, pushed or open, has the path of the
\* last path line between its own header line and the next header line,
\* the class of the last class line there and the interfaces of the
\* interface lines there in listing order, each empty when there is no
\* such line; a device already pushed therefore never changes, and
\* continuation lines before the first header line make no device.
C7_ContinuationsStayInSegment ==
    pc \in {"scan", "done"} =>
        LET hs == Ascending(HeaderLines(ScannedUpTo))
        IN  /\ hs = <<>> => ExportHeld = <<>>
            /\ Len(ExportHeld) = Len(hs)
            /\ \A k \in 1..Len(hs) :
                  LET seg == Segment(hs[k], ScannedUpTo)
                      ps == {j \in seg : IsPath(j)}
                      cs == {j \in seg : IsClass(j)}
                      is == Ascending({j \in seg : IsInterface(j)})
                      d == ExportHeld[k]
                  IN  /\ d.path = IF ps = {} THEN <<>>
                                  ELSE Match(lines[Largest(ps)], pathRegex).g[1]
                      /\ d.deviceClass =
                            IF cs = {} THEN <<>>
                            ELSE LET m == Match(lines[Largest(cs)], classRegex).g
                                 IN  m[1] \o <<" ", "(">> \o m[2] \o <<")">>
                      /\ Len(d.interfaces) = Len(is)
                      /\ \A i \in 1..Len(is) :
                            LET m == Match(lines[is[i]], interfaceRegex).g
                            IN  /\ d.interfaces[i].index = ToNumber(m[1])
                                /\ d.interfaces[i].description = m[2]
                                /\ d.interfaces[i].classCode = m[3]

\* a path line came before the first header line and another after it
C7_Witness ==
    /\ pc = "done"
    /\ Len(lines) = 3
    /\ IsPath(1)
    /\ IsHeader(2)
    /\ IsPath(3)
    /\ Len(devices) = 1
    /\ devices[1].path # <<>>

PortWord ==
    <<"P", "o", "r", "t", " ">>

InUseAt ==
    <<":", " ", "d", "e", "v", "i", "c", "e", " ", "i", "n", " ", "u", "s",
      "e", " ", "a", "t", " ">>

UrlArrow ==
    <<"-", ">", " ", "u", "s", "b", "i", "p", ":", "/", "/">>

UsbipScheme ==
    <<"u", "s", "b", "i", "p", ":", "/", "/">>

BusDevArrow ==
    <<"-", ">", " ", "r", "e", "m", "o", "t", "e", " ", "b", "u", "s", "/",
      "d", "e", "v", " ">>

\* /^Port (\d+): device in use at (.+)$/
portLineRegex ==
    <<Lit(PortWord), Open(1), Plus("\\d"), Close(1), Lit(InUseAt), Open(2),
      Plus("any"), Close(2), EndAnchor>>

\* /^\s+(.*)\s+:\s+(.*)\s+\(([\da-fA-F]{4}):([\da-fA-F]{4})\)/
vendorLineRegex ==
    <<Plus("\\s"), Open(1), Star("any"), Close(1), Plus("\\s"), One(":"),
      Plus("\\s"), Open(2), Star("any"), Close(2), Plus("\\s"), One("("),
      Open(3), Rep("hex", 4), Close(3), One(":"), Open(4), Rep("hex", 4),
      Close(4), One(")")>>

\* /^\s+-> usbip:\/\/(.+)/
urlRegex == <<Plus("\\s"), Lit(UrlArrow), Open(1), Plus("any"), Close(1)>>

\* /^\s+-> remote bus\/dev (\d{3})\/(\d{3})/
remoteBusDevRegex ==
    <<Plus("\\s"), Lit(BusDevArrow), Open(1), Rep("\\d", 3), Close(1),
      One("/"), Open(2), Rep("\\d", 3), Close(2)>>

\* `let currentDevice: Partial<ImportedUsbDevice> = {}`: a record with the
\* properties set so far
EmptyPartial == <<>>

\* `currentDevice.k = v`
Put(r, k, v) == (k :> v) @@ r

\* `currentDevice.port` as a condition: the property is set and its string
\* is not empty
HasPort(cur) == "port" \in DOMAIN cur /\ cur.port # <<>>

PushOpenRecordIfComplete(devs, cur) ==
    IF HasPort(cur) /\ "vendor" \in DOMAIN cur /\ "remoteUrl" \in DOMAIN cur
    THEN Append(devs, cur) ELSE devs

\* `if (currentDevice.port) { devices.push(currentDevice as ImportedUsbDevice); }`
PushOpenRecord(devs, cur) == IF HasPort(cur) THEN Append(devs, cur) ELSE devs

PortTextCut(digits) ==
    LET padded == PadStart(digits, 2, "0")
    IN  SubSeq(padded, Len(padded) - 1, Len(padded))

\* `portMatch[1].padStart(2, '0')`
PortText(digits) == PadStart(digits, 2, "0")

\* One pass of the loop body over a line: the branch taken, the accumulator
\* and the result array it leaves.
ImportStep(cur, devs, line) ==
    IF Match(line, portLineRegex).ok
        THEN LET m == Match(line, portLineRegex).g
                 fresh == IF HasPort(cur) THEN EmptyPartial ELSE cur
             IN  [branch |-> "port",
                  currentDevice |->
                      Put(Put(fresh, "port", PortText(m[1])), "speed", m[2]),
                  devices |-> PushOpenRecord(devs, cur)]
    ELSE IF Match(line, vendorLineRegex).ok
        THEN LET m == Match(line, vendorLineRegex).g
             IN  [branch |-> "vendor",
                  currentDevice |->
                      Put(Put(Put(Put(cur, "vendor", m[1]), "product", m[2]),
                              "vendorId", m[3]), "productId", m[4]),
                  devices |-> devs]
    ELSE IF Match(line, urlRegex).ok
        THEN [branch |-> "url",
              currentDevice |->
                  Put(cur, "remoteUrl",
                      UsbipScheme \o Match(line, urlRegex).g[1]),
              devices |-> devs]
    ELSE IF Match(line, remoteBusDevRegex).ok
        THEN LET m == Match(line, remoteBusDevRegex).g
             IN  [branch |-> "busdev",
                  currentDevice |->
                      Put(Put(cur, "remoteBus", m[1]), "remoteDev", m[2]),
                  devices |-> devs]
    ELSE [branch |-> "none", currentDevice |-> cur, devices |-> devs]

\* The loop over lines k.., then the push of the record still open.
RECURSIVE ImportScan(_, _, _, _)
ImportScan(ls, k, cur, devs) ==
    IF k > Len(ls) THEN PushOpenRecord(devs, cur)
    ELSE CHOOSE r \in {ImportScan(ls, k + 1, st.currentDevice, st.devices) :
                           st \in {ImportStep(cur, devs, ls[k])}} : TRUE

parseImportedUsbDevices(text) ==
    ImportScan(SplitLines(text), 1, EmptyPartial, <<>>)

(***************************************************************************)
(* Port listings the parser is run on: every listing of at most MaxLines   *)
(* of the lines below, joined by \n or by \r\n.                            *)
(***************************************************************************)
PortOne ==
    <<"P", "o", "r", "t", " ", "1", ":", " ", "d", "e", "v", "i", "c", "e",
      " ", "i", "n", " ", "u", "s", "e", " ", "a", "t", " ", "H", "S">>

PortTwelve ==
    <<"P", "o", "r", "t", " ", "1", "2", ":", " ", "d", "e", "v", "i", "c",
      "e", " ", "i", "n", " ", "u", "s", "e", " ", "a", "t", " ", "F", "S">>

PortLong ==
    <<"P", "o", "r", "t", " ", "1", "2", "3", ":", " ", "d", "e", "v", "i",
      "c", "e", " ", "i", "n", " ", "u", "s", "e", " ", "a", "t", " ", "S",
      "S">>

VendorLine ==
    <<" ", " ", "S", "a", "n", "D", "i", "s", "k", " ", ":", " ", "C", "r",
      "u", "z", "e", "r", " ", "(", "0", "7", "8", "1", ":", "5", "5", "6",
      "7", ")">>

UrlLine ==
    <<" ", " ", "-", ">", " ", "u", "s", "b", "i", "p", ":", "/", "/", "h",
      ":", "3", "2", "4", "0", "/", "1", "-", "2">>

BusDevLine ==
    <<" ", " ", "-", ">", " ", "r", "e", "m", "o", "t", "e", " ", "b", "u",
      "s", "/", "d", "e", "v", " ", "0", "0", "2", "/", "0", "0", "3">>

BannerLine ==
    <<"I", "m", "p", "o", "r", "t", "e", "d", " ", "U", "S", "B", " ", "d",
      "e", "v", "i", "c", "e", "s">>

ImportLinePool ==
    {PortOne, PortTwelve, PortLong, VendorLine, UrlLine, BusDevLine,
     BannerLine}

ImportInputs ==
    {Join(ls, sep) :
        ls \in UNION {[1..n -> ImportLinePool] : n \in 0..MaxLines},
        sep \in LineBreaks}

\* parseImportedUsbDevices entered: lines 224-232 have run.
ImportInit ==
    /\ output \in ImportInputs
    /\ client = "none"
    /\ lines = SplitLines(output)
    /\ idx = 1
    /\ currentDevice = EmptyPartial
    /\ devices = <<>>
    /\ pc = "scan"
    /\ CommandsIdle

\* One pass of the loop body (lines 234-266) that takes branch b.
ImportLine(b) ==
    /\ pc = "scan"
    /\ idx <= Len(lines)
    /\ \E st \in {ImportStep(currentDevice, devices, lines[idx])} :
          /\ st.branch = b
          /\ currentDevice' = st.currentDevice
          /\ devices' = st.devices
    /\ idx' = idx + 1

\* lines 235-244: a port header line
PortLine ==
    /\ ImportLine("port")
    /\ UNCHANGED <<pc, output, client, lines>>
    /\ UNCHANGED commandVars

\* lines 246-253: a vendor line
VendorProductLine ==
    /\ ImportLine("vendor")
    /\ UNCHANGED <<pc, output, client, lines>>
    /\ UNCHANGED commandVars

\* lines 255-259: a remote URL line
RemoteUrlLine ==
    /\ ImportLine("url")
    /\ UNCHANGED <<pc, output, client, lines>>
    /\ UNCHANGED commandVars

\* lines 261-265: a remote bus/dev line
RemoteBusDevLine ==
    /\ ImportLine("busdev")
    /\ UNCHANGED <<pc, output, client, lines>>
    /\ UNCHANGED commandVars

\* a line no expression matches
UnmatchedLine ==
    /\ ImportLine("none")
    /\ UNCHANGED <<pc, output, client, lines>>
    /\ UNCHANGED commandVars

\* After the loop: lines 268-272.
ImportReturn ==
    /\ pc = "scan"
    /\ idx > Len(lines)
    /\ devices' = PushOpenRecord(devices, currentDevice)
    /\ pc' = "done"
    /\ UNCHANGED <<output, client, lines, idx, currentDevice>>
    /\ UNCHANGED commandVars

ImportNext ==
    \/ PortLine
    \/ VendorProductLine
    \/ RemoteUrlLine
    \/ RemoteBusDevLine
    \/ UnmatchedLine
    \/ ImportReturn

SpecImport == ImportInit /\ [][ImportNext]_vars

(***************************************************************************)
(* Properties of parseImportedUsbDevices.                                  *)
(***************************************************************************)
IsPortHeader(k) == Match(lines[k], portLineRegex).ok

\* the port header lines among the first n lines
PortHeaderLines(n) == {k \in 1..n : IsPortHeader(k)}

\* the records the parser holds: those pushed, then the one open, which is
\* pushed as soon as a port header line or the end of the input follows
ImportHeld ==
    IF pc = "scan" /\ HasPort(currentDevice)
    THEN Append(devices, currentDevice) ELSE devices

\* C3: at every point of the scan, and in the returned array, the records
\* pushed plus the one open are exactly the port header lines seen so far,
\* one record per port header line and in their order, each with the speed
\* text of its own header line, whatever continuation lines follow the
\* header; nothing is held or returned while no port header line was seen.
C3_OneRecordPerPortHeader ==
    pc \in {"scan", "done"} =>
        LET hs == Ascending(PortHeaderLines(ScannedUpTo))
        IN  /\ Len(ImportHeld) = Len(hs)
            /\ hs = <<>> => devices = <<>>
            /\ \A k \in 1..Len(hs) :
                  /\ "port" \in DOMAIN ImportHeld[k]
                  /\ ImportHeld[k].speed =
                        Match(lines[hs[k]], portLineRegex).g[2]

\* a port header directly followed by another port header, itself followed
\* by the end of the input: both records are returned, with no other field
C3_Witness ==
    /\ pc = "done"
    /\ Len(lines) = 2
    /\ IsPortHeader(1)
    /\ IsPortHeader(2)
    /\ Len(devices) = 2
    /\ DOMAIN devices[1] = {"port", "speed"}
    /\ DOMAIN devices[2] = {"port", "speed"}

\* C4 as stated: the port of every record is exactly two decimal digits.
C4_PortIsTwoDigits ==
    pc \in {"scan", "done"} =>
        \A k \in 1..Len(ImportHeld) :
            /\ Len(ImportHeld[k].port) = 2
            /\ \A i \in 1..Len(ImportHeld[k].port) :
                  ImportHeld[k].port[i] \in Digit

\* C4 as amended: the port of every record is the digits of its port header
\* line, with one "0" in front when there is a single digit and unchanged
\* when there are two digits or more (never cut).
C4_PortPaddedNeverCut ==
    pc \in {"scan", "done"} =>
        LET hs == Ascending(PortHeaderLines(ScannedUpTo))
        IN  /\ Len(ImportHeld) = Len(hs)
            /\ \A k \in 1..Len(hs) :
                  LET d == Match(lines[hs[k]], portLineRegex).g[1]
                  IN  ImportHeld[k].port =
                          IF Len(d) = 1 THEN <<"0">> \o d ELSE d

\* a one-digit and a three-digit port header were parsed
C4_Witness ==
    /\ pc = "done"
    /\ \E j, k \in 1..Len(devices) :
          /\ devices[j].port = <<"0", "1">>
          /\ devices[k].port = <<"1", "2", "3">>

\* the lines after port header line h, up to the next port header line or
\* line n
PortSegment(h, n) ==
    {k \in (h + 1)..n : \A j \in (h + 1)..k : ~IsPortHeader(j)}

IsVendor(k) == Match(lines[k], vendorLineRegex).ok

IsUrl(k) == ~IsVendor(k) /\ Match(lines[k], urlRegex).ok

IsBusDev(k) ==
    ~IsVendor(k) /\ ~IsUrl(k) /\ Match(lines[k], remoteBusDevRegex).ok

\* C9: every record held has its vendor, product, vendorId and productId,
\* its remoteUrl, and its remoteBus and remoteDev set exactly when a
\* matching continuation line lies between its own port header line and
\* the next one, and then with the values of the last such line; lines
\* before the first port header line set nothing in any record.
C9_FieldsFromOwnSegment ==
    pc \in {"scan", "done"} =>
        LET hs == Ascending(PortHeaderLines(ScannedUpTo))
        IN  /\ Len(ImportHeld) = Len(hs)
            /\ \A k \in 1..Len(hs) :
                  LET seg == PortSegment(hs[k], ScannedUpTo)
                      vs == {j \in seg : IsVendor(j)}
                      us == {j \in seg : IsUrl(j)}
                      bs == {j \in seg : IsBusDev(j)}
                      r == ImportHeld[k]
                  IN  /\ "vendor" \in DOMAIN r <=> vs # {}
                      /\ "product" \in DOMAIN r <=> vs # {}
                      /\ "vendorId" \in DOMAIN r <=> vs # {}
                      /\ "productId" \in DOMAIN r <=> vs # {}
                      /\ "remoteUrl" \in DOMAIN r <=> us # {}
                      /\ "remoteBus" \in DOMAIN r <=> bs # {}
                      /\ "remoteDev" \in DOMAIN r <=> bs # {}
                      /\ vs # {} =>
                            LET m == Match(lines[Largest(vs)],
                                           vendorLineRegex).g
                            IN  /\ r.vendor = m[1]
                                /\ r.product = m[2]
                                /\ r.vendorId = m[3]
                                /\ r.productId = m[4]
                      /\ us # {} =>
                            r.remoteUrl =
                                UsbipScheme
                                \o Match(lines[Largest(us)], urlRegex).g[1]
                      /\ bs # {} =>
                            LET m == Match(lines[Largest(bs)],
                                           remoteBusDevRegex).g
                            IN  /\ r.remoteBus = m[1]
                                /\ r.remoteDev = m[2]

(***************************************************************************)
(* The command handlers listDevices, attachDevice and detachDevice.  An    *)
(* action is the code between two awaits; exec and showQuickPick answer as *)
(* they please.                                                            *)
(***************************************************************************)
Hosts == {"192.168.1.100", "192.168.1.101"}

\* the values of the setting usbipManager.clients
HostLists == UNION {[1..n -> Hosts] : n \in 0..MaxHosts}

\* what `usbip.exe list -r` may print: one device, two devices (with \r\n
\* and white space at both ends), no device
ListingOfMouse ==
    Join(<<JunkLine, HdrMouse, PathMouse, IntfBoot>>, <<"\n">>) \o <<"\n">>

ListingOfBoth == Join(<<HdrMouse, HdrDisk, PathDisk>>, <<"\r", "\n">>)

ListingOfNothing == JunkLine

HostOutputs == {ListingOfMouse, ListingOfBoth, ListingOfNothing}

\* what `usbip.exe port` may print: two ports, no port
PortsOfTwo ==
    Join(<<BannerLine, PortOne, VendorLine, UrlLine, BusDevLine, PortTwelve>>,
         <<"\n">>)

PortsOfNone == BannerLine

PortOutputs == {PortsOfTwo, PortsOfNone}

\* the command lines handed to runCommand
CommandLine(op, c, arg) == [op |-> op, client |-> c, arg |-> arg]

\* `usbip.exe list -r ${client}`
ListCommand(c) == CommandLine("list", c, <<>>)

\* `usbip.exe attach -r ${device.client} -b ${device.busId}`
AttachCommand(d) == CommandLine("attach", d.client, d.busId)

\* 'usbip.exe port'
PortCommand == CommandLine("port", "", <<>>)

\* `usbip.exe detach -p ${selected.device.port}`
DetachCommand(r) == CommandLine("detach", "", r.port)

Exec(command, ok, stdout) == [command |-> command, ok |-> ok, stdout |-> stdout]

Shown(kind, by) == [kind |-> kind, by |-> by]

\* runCommand when exec reports no error: the promise resolves with stdout.
RunCommandResolves(command, stdout) ==
    execLog' = Append(execLog, Exec(command, TRUE, stdout))

\* runCommand when exec reports an error: the message is shown and the
\* promise rejects.
RunCommandRejects(command) ==
    /\ execLog' = Append(execLog, Exec(command, FALSE, <<>>))
    /\ messages' = Append(messages, Shown("error", "runCommand"))

CollectFirst(devs, parsed) == parsed \o devs

\* `devices.push(...parseUsbipOutput(output, client))`
Collect(devs, parsed) == devs \o parsed

NothingToShowNegative(devs) == Len(devs) < 0

\* `devices.length === 0`
NothingToShow(devs) == Len(devs) = 0

ListReturnValueAll(k, devs) == [defined |-> TRUE, value |-> devs]

\* `selected ? [selected.device] : undefined`, item k having been picked
ListReturnValue(k, devs) ==
    IF k # 0 THEN [defined |-> TRUE, value |-> <<devs[k]>>] ELSE Undefined

\* The extension is activated and no command was invoked yet.
CommandInit ==
    /\ pc = "idle"
    /\ cmd = "none"
    /\ clients \in HostLists
    /\ hostIdx = 0
    /\ devices = <<>>
    /\ execLog = <<>>
    /\ messages = <<>>
    /\ picks = <<>>
    /\ selected = NotAsked
    /\ ret = Undefined
    /\ attachIdx = 0
    /\ portList = <<>>
    /\ outcome = "pending"
    /\ output = <<>>
    /\ client = "none"
    /\ lines = <<>>
    /\ idx = 0
    /\ currentDevice = Null

\* The user runs one of the three registered commands.
Invoke ==
    /\ pc = "idle"
    /\ \E c \in {"listDevices", "attachDevice", "detachDevice"} :
          /\ cmd' = c
          /\ pc' = IF c = "detachDevice" THEN "detachStart" ELSE "listStart"
    /\ UNCHANGED <<clients, hostIdx, devices, execLog, messages, picks,
                   selected, ret, attachIdx, portList, outcome>>
    /\ UNCHANGED parserVars

\* listDevices, lines 57-64: no client is configured.
ListNoClients ==
    /\ pc = "listStart"
    /\ Len(clients) = 0
    /\ messages' = Append(messages, Shown("error", "listDevices"))
    /\ ret' = Undefined
    /\ pc' = "listReturned"
    /\ UNCHANGED <<cmd, clients, hostIdx, devices, execLog, picks, selected,
                   attachIdx, portList, outcome>>
    /\ UNCHANGED parserVars

\* listDevices, lines 57-68: the loop over the clients starts.
ListBegin ==
    /\ pc = "listStart"
    /\ Len(clients) # 0
    /\ devices' = <<>>
    /\ hostIdx' = 1
    /\ pc' = "listLoop"
    /\ UNCHANGED <<cmd, clients, execLog, messages, picks, selected, ret,
                   attachIdx, portList, outcome>>
    /\ UNCHANGED parserVars

\* listDevices, lines 68-71: the listing of a client arrives.
ListQuerySucceeds ==
    /\ pc = "listLoop"
    /\ hostIdx <= Len(clients)
    /\ \E stdout \in HostOutputs :
          /\ RunCommandResolves(ListCommand(clients[hostIdx]), stdout)
          /\ devices' =
                Collect(devices,
                        parseUsbipOutput(Trim(stdout), clients[hostIdx]))
    /\ hostIdx' = hostIdx + 1
    /\ UNCHANGED <<pc, cmd, clients, messages, picks, selected, ret,
                   attachIdx, portList, outcome>>
    /\ UNCHANGED parserVars

\* listDevices, lines 68-75: the command of a client fails; the catch block
\* is empty and the loop goes on.
ListQueryFails ==
    /\ pc = "listLoop"
    /\ hostIdx <= Len(clients)
    /\ RunCommandRejects(ListCommand(clients[hostIdx]))
    /\ hostIdx' = hostIdx + 1
    /\ UNCHANGED <<pc, cmd, clients, devices, picks, selected, ret,
                   attachIdx, portList, outcome>>
    /\ UNCHANGED parserVars

\* listDevices, lines 78-81: no device was collected.
ListNothingFound ==
    /\ pc = "listLoop"
    /\ hostIdx > Len(clients)
    /\ NothingToShow(devices)
    /\ messages' = Append(messages, Shown("warning", "listDevices"))
    /\ ret' = Undefined
    /\ pc' = "listReturned"
    /\ UNCHANGED <<cmd, clients, hostIdx, devices, execLog, picks, selected,
                   attachIdx, portList, outcome>>
    /\ UNCHANGED parserVars

\* listDevices, lines 83-92: the quick pick opens with one item per device.
ListShowPick ==
    /\ pc = "listLoop"
    /\ hostIdx > Len(clients)
    /\ ~NothingToShow(devices)
    /\ picks' = Append(picks, devices)
    /\ pc' = "listPick"
    /\ UNCHANGED <<cmd, clients, hostIdx, devices, execLog, messages,
                   selected, ret, attachIdx, portList, outcome>>
    /\ UNCHANGED parserVars

\* listDevices, lines 90-94: the user picks item k, or cancels (k = 0).
ListPicked ==
    /\ pc = "listPick"
    /\ \E k \in 0..Len(devices) :
          /\ selected' = [asked |-> TRUE, item |-> k]
          /\ ret' = ListReturnValue(k, devices)
    /\ pc' = "listReturned"
    /\ UNCHANGED <<cmd, clients, hostIdx, devices, execLog, messages, picks,
                   attachIdx, portList, outcome>>
    /\ UNCHANGED parserVars

\* The command usbipManager.listDevices ends when listDevices returns.
ListDone ==
    /\ pc = "listReturned"
    /\ cmd = "listDevices"
    /\ outcome' = "resolved"
    /\ pc' = "done"
    /\ UNCHANGED <<cmd, clients, hostIdx, devices, execLog, messages, picks,
                   selected, ret, attachIdx, portList>>
    /\ UNCHANGED parserVars

\* attachDevice, lines 101-104: listDevices returned undefined.
AttachNoDevice ==
    /\ pc = "listReturned"
    /\ cmd = "attachDevice"
    /\ ~ret.defined
    /\ outcome' = "resolved"
    /\ pc' = "done"
    /\ UNCHANGED <<cmd, clients, hostIdx, devices, execLog, messages, picks,
                   selected, ret, attachIdx, portList>>
    /\ UNCHANGED parserVars

\* attachDevice, lines 101-106: the loop over the returned devices starts.
AttachBegin ==
    /\ pc = "listReturned"
    /\ cmd = "attachDevice"
    /\ ret.defined
    /\ attachIdx' = 1
    /\ pc' = "attachLoop"
    /\ UNCHANGED <<cmd, clients, hostIdx, devices, execLog, messages, picks,
                   selected, ret, portList, outcome>>
    /\ UNCHANGED parserVars

\* attachDevice, lines 106-109: the attach command succeeds.
AttachSucceeds ==
    /\ pc = "attachLoop"
    /\ attachIdx <= Len(ret.value)
    /\ RunCommandResolves(AttachCommand(ret.value[attachIdx]), <<>>)
    /\ messages' = Append(messages, Shown("info", "attachDevice"))
    /\ attachIdx' = attachIdx + 1
    /\ UNCHANGED <<pc, cmd, clients, hostIdx, devices, picks, selected, ret,
                   portList, outcome>>
    /\ UNCHANGED parserVars

\* attachDevice, lines 106-112: the attach command fails and is caught.
AttachFails ==
    /\ pc = "attachLoop"
    /\ attachIdx <= Len(ret.value)
    /\ RunCommandRejects(AttachCommand(ret.value[attachIdx]))
    /\ attachIdx' = attachIdx + 1
    /\ UNCHANGED <<pc, cmd, clients, hostIdx, devices, picks, selected, ret,
                   portList, outcome>>
    /\ UNCHANGED parserVars

\* attachDevice, line 114: the loop is over.
AttachDone ==
    /\ pc = "attachLoop"
    /\ attachIdx > Len(ret.value)
    /\ outcome' = "resolved"
    /\ pc' = "done"
    /\ UNCHANGED <<cmd, clients, hostIdx, devices, execLog, messages, picks,
                   selected, ret, attachIdx, portList>>
    /\ UNCHANGED parserVars

\* detachDevice, line 121: `usbip.exe port` fails; the await is in no try
\* block, so detachDevice's promise rejects.
DetachPortsFail ==
    /\ pc = "detachStart"
    /\ RunCommandRejects(PortCommand)
    /\ outcome' = "rejected"
    /\ pc' = "done"
    /\ UNCHANGED <<cmd, clients, hostIdx, devices, picks, selected, ret,
                   attachIdx, portList>>
    /\ UNCHANGED parserVars

\* detachDevice, lines 121-126: no port is attached.
DetachNothingAttached ==
    /\ pc = "detachStart"
    /\ \E stdout \in PortOutputs :
          /\ Len(parseImportedUsbDevices(stdout)) = 0
          /\ RunCommandResolves(PortCommand, stdout)
          /\ portList' = parseImportedUsbDevices(stdout)
    /\ messages' = Append(messages, Shown("warning", "detachDevice"))
    /\ outcome' = "resolved"
    /\ pc' = "done"
    /\ UNCHANGED <<cmd, clients, hostIdx, devices, picks, selected, ret,
                   attachIdx>>
    /\ UNCHANGED parserVars

\* detachDevice, lines 121-134: the quick pick opens with one item per port.
DetachShowPick ==
    /\ pc = "detachStart"
    /\ \E stdout \in PortOutputs :
          /\ Len(parseImportedUsbDevices(stdout)) # 0
          /\ RunCommandResolves(PortCommand, stdout)
          /\ portList' = parseImportedUsbDevices(stdout)
          /\ picks' = Append(picks, parseImportedUsbDevices(stdout))
    /\ pc' = "detachPick"
    /\ UNCHANGED <<cmd, clients, hostIdx, devices, messages, selected, ret,
                   attachIdx, outcome>>
    /\ UNCHANGED parserVars

\* detachDevice, lines 132-137: the user cancels.
DetachCancelled ==
    /\ pc = "detachPick"
    /\ selected' = [asked |-> TRUE, item |-> 0]
    /\ outcome' = "resolved"
    /\ pc' = "done"
    /\ UNCHANGED <<cmd, clients, hostIdx, devices, execLog, messages, picks,
                   ret, attachIdx, portList>>
    /\ UNCHANGED parserVars

\* detachDevice, lines 132-139: the user picks port item k.
DetachPicked ==
    /\ pc = "detachPick"
    /\ \E k \in 1..Len(portList) : selected' = [asked |-> TRUE, item |-> k]
    /\ pc' = "detachRun"
    /\ UNCHANGED <<cmd, clients, hostIdx, devices, execLog, messages, picks,
                   ret, attachIdx, portList, outcome>>
    /\ UNCHANGED parserVars

\* detachDevice, lines 139-141: the detach command succeeds.
DetachSucceeds ==
    /\ pc = "detachRun"
    /\ RunCommandResolves(DetachCommand(portList[selected.item]), <<>>)
    /\ messages' = Append(messages, Shown("info", "detachDevice"))
    /\ outcome' = "resolved"
    /\ pc' = "done"
    /\ UNCHANGED <<cmd, clients, hostIdx, devices, picks, selected, ret,
                   attachIdx, portList>>
    /\ UNCHANGED parserVars

\* detachDevice, lines 139-144: the detach command fails and is caught.
DetachFails ==
    /\ pc = "detachRun"
    /\ RunCommandRejects(DetachCommand(portList[selected.item]))
    /\ outcome' = "resolved"
    /\ pc' = "done"
    /\ UNCHANGED <<cmd, clients, hostIdx, devices, picks, selected, ret,
                   attachIdx, portList>>
    /\ UNCHANGED parserVars

CommandNext ==
    \/ Invoke
    \/ ListNoClients
    \/ ListBegin
    \/ ListQuerySucceeds
    \/ ListQueryFails
    \/ ListNothingFound
    \/ ListShowPick
    \/ ListPicked
    \/ ListDone
    \/ AttachNoDevice
    \/ AttachBegin
    \/ AttachSucceeds
    \/ AttachFails
    \/ AttachDone
    \/ DetachPortsFail
    \/ DetachNothingAttached
    \/ DetachShowPick
    \/ DetachCancelled
    \/ DetachPicked
    \/ DetachSucceeds
    \/ DetachFails

Spec == CommandInit /\ [][CommandNext]_vars

(***************************************************************************)
(* Properties of the command handlers.                                     *)
(***************************************************************************)
\* the exec calls of one kind, in the order they were made
ExecsOf(ops) == SelectSeq(execLog, LAMBDA e : e.command.op \in ops)

\* listDevices is past its test of the client list
InListing ==
    /\ cmd \in {"listDevices", "attachDevice"}
    /\ pc \notin {"idle", "listStart"}

\* the clients the loop of listDevices is through with
HostsDone == IF pc = "listLoop" THEN hostIdx - 1 ELSE Len(clients)

\* what listDevices is to make of each listing a client may send: the
\* listing trimmed, then parsed for that client
ParsedListings ==
    {[stdout |-> o, client |-> c, devices |-> parseUsbipOutput(Trim(o), c)] :
        o \in HostOutputs, c \in Hosts}

DevicesOfListing(o, c) ==
    (CHOOSE t \in ParsedListings : t.stdout = o /\ t.client = c).devices

\* the devices of the first n list commands: those of the listing of each
\* command that succeeded, nothing for one that failed
RECURSIVE DevicesOfHosts(_, _)
DevicesOfHosts(ls, n) ==
    IF n = 0 THEN <<>>
    ELSE DevicesOfHosts(ls, n - 1)
         \o (IF ls[n].ok
             THEN DevicesOfListing(ls[n].stdout, ls[n].command.client)
             ELSE <<>>)

\* C2: while listDevices runs and after it, the list commands made are one
\* per client gone through, in configured order (a failure neither stops
\* the loop nor is retried), the devices collected are the concatenation in
\* that order of the devices parsed from each listing that arrived (nothing
\* for a client whose command failed), every device carries the client it
\* was listed by, and the handler's promise is not rejected.
C2_HostIsolation ==
    InListing =>
        LET ls == ExecsOf({"list"})
        IN  /\ Len(ls) = HostsDone
            /\ \A k \in 1..Len(ls) : ls[k].command = ListCommand(clients[k])
            /\ devices = DevicesOfHosts(ls, Len(ls))
            /\ \A i \in 1..Len(devices) :
                  \E k \in 1..Len(ls) :
                      ls[k].ok /\ devices[i].client = clients[k]
            /\ outcome # "rejected"

\* three clients were gone through, the second failed, and the collection
\* starts with a device of the first and ends with a device of the third
C2_Witness ==
    /\ cmd = "listDevices"
    /\ pc = "done"
    /\ Len(clients) = 3
    /\ clients[1] # clients[3]
    /\ Len(ExecsOf({"list"})) = 3
    /\ ExecsOf({"list"})[1].ok
    /\ ~ExecsOf({"list"})[2].ok
    /\ ExecsOf({"list"})[3].ok
    /\ Len(devices) >= 2
    /\ devices[1].client = clients[1]
    /\ devices[Len(devices)].client = clients[3]

UserCancelled == selected.asked /\ selected.item = 0

\* C5: once the user has cancelled the quick pick of attachDevice or
\* detachDevice, no attach and no detach command was or is issued, no
\* success is reported, listDevices has returned undefined to attachDevice,
\* and all that is left to the handler is to return: its promise resolves.
C5_CancelIssuesNothing ==
    (cmd \in {"attachDevice", "detachDevice"} /\ UserCancelled) =>
        /\ ExecsOf({"attach", "detach"}) = <<>>
        /\ \A i \in 1..Len(messages) : messages[i].kind # "info"
        /\ cmd = "attachDevice" => ret = Undefined
        /\ pc \in {"listReturned", "done"}
        /\ pc = "listReturned" => ENABLED AttachNoDevice
        /\ pc = "done" => outcome = "resolved"

\* attachDevice has ended after the user cancelled the quick pick
C5_Witness ==
    /\ cmd = "attachDevice"
    /\ UserCancelled
    /\ Len(picks) = 1
    /\ pc = "done"
    /\ outcome = "resolved"

\* C6: when listDevices ends with no client configured or no device
\* collected, it has returned undefined after showing its own message (an
\* error for the empty client list, a warning otherwise), the quick pick
\* was never opened, attachDevice issues no attach command and resolves,
\* and with no client configured no command was run at all.
C6_NothingToShow ==
    (InListing /\ HostsDone = Len(clients) /\ Len(devices) = 0
     /\ pc # "listLoop") =>
        /\ ret = Undefined
        /\ picks = <<>>
        /\ ~selected.asked
        /\ pc \in {"listReturned", "done"}
        /\ outcome # "rejected"
        /\ ExecsOf({"attach"}) = <<>>
        /\ Len(clients) = 0 => execLog = <<>>
        /\ messages # <<>>
        /\ messages[Len(messages)] =
              Shown(IF Len(clients) = 0 THEN "error" ELSE "warning",
                    "listDevices")

\* attachDevice has ended after every one of two clients or more failed
C6_Witness ==
    /\ cmd = "attachDevice"
    /\ pc = "done"
    /\ Len(clients) >= 2
    /\ Len(execLog) = Len(clients)
    /\ \A i \in 1..Len(execLog) : ~execLog[i].ok

\* C10: every failed command was shown once by runCommand, and no handler
\* ends with its promise rejected.
C10_FailuresContained ==
    /\ Len(SelectSeq(messages, LAMBDA m : m = Shown("error", "runCommand")))
          = Len(SelectSeq(execLog, LAMBDA e : ~e.ok))
    /\ pc = "done" => outcome = "resolved"

====
